---- MODULE Spec2Model ----
(***************************************************************************)
(* Model of src/src/lib.rs: the per-tick loop of the creep controller.     *)
(* game_loop runs run_creep for every creep of game::creeps(), then the    *)
(* spawn loop, then the memory cleanup.  The host (the game) acts between  *)
(* two ticks: creeps die, finish spawning or are created by other means.   *)
(***************************************************************************)
EXTENDS Integers, Sequences, FiniteSets, TLC

\* ---------------------------------------------------------------- bounds
\* Spec follows one creep through rooms of every shape; SpecColony follows
\* several creeps through rooms that hold one object of each kind.
MaxTicks == 3             \* Spec: number of ticks
MaxUnits == 1             \* Spec: creeps that come to exist, by any means
ColonyTicks == 2          \* SpecColony: number of ticks
ColonyUnits == 2          \* SpecColony: creeps that come to exist, by any means
NumSpawns == 2            \* entries of game::spawns()

CleanupInterval == 1000   \* game::time() % 1000
\* game::time() of the first modelled tick: the cleanup runs in the second
StartTime == CleanupInterval - 1

\* ---------------------------------------------------------------- values
Roles == {"Builder", "Worker"}

ControllerIds == {"c1"}
SourceIds == {"s1", "s2"}
SiteIds == {"b1", "b2"}
SpawnIds == {"p1", "p2"}

\* Option<CreepTarget>: None, or a variant with the ObjectId it carries
None == [kind |-> "None", id |-> "-"]
Upgrade(id) == [kind |-> "Upgrade", id |-> id]
Harvest(id) == [kind |-> "Harvest", id |-> id]
Build(id) == [kind |-> "Build", id |-> id]
FillSpawn(id) == [kind |-> "FillSpawn", id |-> id]

\* a value of the map CREEP_INFO: (CreepRole, Option<CreepTarget>)
Rec(role, target) == [role |-> role, target |-> target]

\* format!("{}-{}", name_base, additional)
Name(t, k) == ToString(t) \o "-" \o ToString(k)

LongestRun == IF MaxTicks > ColonyTicks THEN MaxTicks ELSE ColonyTicks
Times == StartTime .. (StartTime + LongestRun - 1)
SpawnNames == {Name(t, k) : t \in Times, k \in 0 .. (NumSpawns - 1)}
\* names of creeps spawned by something else than game_loop: the host lets a
\* creep bear any name no living creep bears, also one game_loop generates
ExtNames == {Name(StartTime + 1, 0)}
Names == SpawnNames \cup ExtNames

\* let body = [Part::Move, Part::Move, Part::Carry, Part::Work]
Body == <<"Move", "Move", "Carry", "Work">>
\* Part::cost()
PartCost(part) == IF part = "Work" THEN 100 ELSE 50
\* body.iter().map(|p| p.cost()).sum()
BodyCost == PartCost(Body[1]) + PartCost(Body[2]) + PartCost(Body[3]) + PartCost(Body[4])
\* spawn.room().unwrap().energy_available(): short of, equal to, above the cost
Energies == {BodyCost - 1, BodyCost, BodyCost + 1}

\* ---------------------------------------------------------------- inputs
\* what one call of run_creep reads from the game
NoId == "noid"
NoController == "nocontroller"

\* the lists of distinct objects of a room, in every enumeration order
RECURSIVE Lists(_)
Lists(S) ==
    {<<>>} \cup UNION {{<<e>> \o l : l \in Lists({x \in S : x.obj # e.obj})} : e \in S}

\* the amounts the code compares with 0: nothing, or something
Amounts == {0, 1}

\* the objects of a kind that a room may hold: all of them, or one
Some(ids, rich) == IF rich THEN ids ELSE {CHOOSE i \in ids : TRUE}

\* room.find(find::SOURCES_ACTIVE, None)
SourceLists(rich) == Lists([obj : Some(SourceIds, rich)])
\* room.find(find::CONSTRUCTION_SITES, None): each site with its try_id()
SiteLists(rich) ==
    Lists({s \in [obj : Some(SiteIds, rich), id : SiteIds \cup {NoId}] : s.id \in {s.obj, NoId}})
\* room.find(find::MY_SPAWNS, None): each spawn with its free energy capacity
SpawnLists(rich) == Lists([obj : Some(SpawnIds, rich), free : Amounts])

\* creep.store(): get_used_capacity and get_free_capacity of energy
Cargos == [used : Amounts, free : Amounts]

\* Result<(), ErrorCode> of upgrade_controller / harvest / build / transfer
Results == {"Ok", "NotInRange", "Other"}

\* the fields run_creep does not read on a path keep these values
NoInput ==
    [cargo |-> [used |-> 0, free |-> 0], resolves |-> FALSE, near |-> FALSE,
     result |-> "Ok", moveOk |-> FALSE, roomOk |-> FALSE, sites |-> <<>>,
     spawns |-> <<>>, controller |-> NoController, sources |-> <<>>]

\* ------------------------------------------------------------- run_creep
\* the guards of the four executing match arms
Precond(target, cargo) ==
    CASE target.kind = "Upgrade" -> cargo.used > 0
      [] target.kind = "Harvest" -> cargo.free > 0
      [] target.kind = "Build" -> cargo.used > 0
      [] target.kind = "FillSpawn" -> cargo.used > 0
      [] OTHER -> FALSE

\* what one call of run_creep leaves: the target slot of the record, the
\* commands issued on the creep, and whether the call panicked
Out(target, say, action, move, panic) ==
    [target |-> target, say |-> say, action |-> action, move |-> move, panic |-> panic]

\* a variant that keeps a target that no longer resolves
ExecUpgradeKeep(target, in) ==
    IF in.resolves
    THEN CASE in.result = "Ok" -> Out(target, TRUE, "upgrade_controller", FALSE, FALSE)
           [] in.result = "NotInRange" -> Out(target, TRUE, "upgrade_controller", TRUE, FALSE)
           [] OTHER -> Out(None, TRUE, "upgrade_controller", FALSE, FALSE)
    ELSE Out(target, TRUE, "none", FALSE, FALSE)

ExecUpgrade(target, in) ==
    IF in.resolves
    THEN CASE in.result = "Ok" -> Out(target, TRUE, "upgrade_controller", FALSE, FALSE)
           [] in.result = "NotInRange" -> Out(target, TRUE, "upgrade_controller", TRUE, FALSE)
           [] OTHER -> Out(None, TRUE, "upgrade_controller", FALSE, FALSE)
    ELSE Out(None, TRUE, "none", FALSE, FALSE)

ExecHarvest(target, in) ==
    IF in.resolves
    THEN IF in.near
         THEN IF in.result = "Ok"
              THEN Out(target, TRUE, "harvest", FALSE, FALSE)
              ELSE Out(None, TRUE, "harvest", FALSE, FALSE)
         ELSE Out(target, TRUE, "none", TRUE, FALSE)
    ELSE Out(None, TRUE, "none", FALSE, FALSE)

\* a variant that treats the range error as any other error
ExecBuildStrict(target, in) ==
    IF in.resolves
    THEN IF in.result = "Ok"
         THEN Out(target, TRUE, "build", FALSE, FALSE)
         ELSE Out(None, TRUE, "build", FALSE, FALSE)
    ELSE Out(None, TRUE, "none", FALSE, FALSE)

ExecBuild(target, in) ==
    IF in.resolves
    THEN CASE in.result = "Ok" -> Out(target, TRUE, "build", FALSE, FALSE)
           [] in.result = "NotInRange" -> Out(target, TRUE, "build", TRUE, FALSE)
           [] OTHER -> Out(None, TRUE, "build", FALSE, FALSE)
    ELSE Out(None, TRUE, "none", FALSE, FALSE)

\* a variant that walks to a spawn that no longer resolves
ExecFillSpawnStale(target, in) ==
    IF in.resolves
    THEN CASE in.result = "Ok" -> Out(target, TRUE, "transfer", FALSE, FALSE)
           [] in.result = "NotInRange" -> Out(target, TRUE, "transfer", TRUE, FALSE)
           [] OTHER -> Out(None, TRUE, "transfer", FALSE, FALSE)
    ELSE Out(None, TRUE, "none", TRUE, FALSE)

ExecFillSpawn(target, in) ==
    IF in.resolves
    THEN CASE in.result = "Ok" -> Out(target, TRUE, "transfer", FALSE, FALSE)
           [] in.result = "NotInRange" -> Out(target, TRUE, "transfer", TRUE, FALSE)
           [] OTHER -> Out(None, TRUE, "transfer", FALSE, FALSE)
    ELSE Out(None, TRUE, "none", FALSE, FALSE)

\* a variant that takes the last site of the list instead of the first
SelectBuilderLast(target, in) ==
    IF in.sites # <<>>
    THEN IF in.sites[Len(in.sites)].id # NoId
         THEN Out(Build(in.sites[Len(in.sites)].id), TRUE, "none", FALSE, FALSE)
         ELSE Out(target, FALSE, "none", FALSE, FALSE)
    ELSE IF in.controller # NoController
         THEN Out(Upgrade(in.controller), TRUE, "none", FALSE, FALSE)
         ELSE Out(target, FALSE, "none", FALSE, FALSE)

\* CreepRole::Builder arm of the selection
SelectBuilder(target, in) ==
    IF in.sites # <<>>
    THEN IF Head(in.sites).id # NoId
         THEN Out(Build(Head(in.sites).id), TRUE, "none", FALSE, FALSE)
         ELSE Out(target, FALSE, "none", FALSE, FALSE)
    ELSE IF in.controller # NoController
         THEN Out(Upgrade(in.controller), TRUE, "none", FALSE, FALSE)
         ELSE Out(target, FALSE, "none", FALSE, FALSE)

\* CreepRole::Worker arm of the selection
SelectWorker(target, in) ==
    IF in.spawns # <<>>
    THEN IF Head(in.spawns).free > 0
         THEN Out(FillSpawn(Head(in.spawns).obj), TRUE, "none", FALSE, FALSE)
         ELSE IF in.controller # NoController
              THEN Out(Upgrade(in.controller), TRUE, "none", FALSE, FALSE)
              ELSE Out(target, FALSE, "none", FALSE, FALSE)
    ELSE Out(target, FALSE, "none", FALSE, FALSE)

\* a variant that clears the target when it selects nothing
SelectOrClear(role, target, in) ==
    IF ~in.roomOk
    THEN Out(target, FALSE, "none", FALSE, TRUE)
    ELSE LET found == IF in.cargo.used > 0
                      THEN IF role = "Builder"
                           THEN SelectBuilder(target, in)
                           ELSE SelectWorker(target, in)
                      ELSE IF in.sources # <<>>
                           THEN Out(Harvest(Head(in.sources).obj), TRUE, "none", FALSE, FALSE)
                           ELSE Out(target, FALSE, "none", FALSE, FALSE)
         IN  IF found.say THEN found ELSE [found EXCEPT !.target = None]

\* a variant that sets out for the target it selects in the same call
SelectAndMove(role, target, in) ==
    IF ~in.roomOk
    THEN Out(target, FALSE, "none", FALSE, TRUE)
    ELSE LET found == IF in.cargo.used > 0
                      THEN IF role = "Builder"
                           THEN SelectBuilder(target, in)
                           ELSE SelectWorker(target, in)
                      ELSE IF in.sources # <<>>
                           THEN Out(Harvest(Head(in.sources).obj), TRUE, "none", FALSE, FALSE)
                           ELSE Out(target, FALSE, "none", FALSE, FALSE)
         IN  [found EXCEPT !.move = found.say]

\* a variant that passes over a creep whose room does not resolve
SelectOrSkip(role, target, in) ==
    IF ~in.roomOk
    THEN Out(target, FALSE, "none", FALSE, FALSE)
    ELSE IF in.cargo.used > 0
         THEN IF role = "Builder"
              THEN SelectBuilder(target, in)
              ELSE SelectWorker(target, in)
         ELSE IF in.sources # <<>>
              THEN Out(Harvest(Head(in.sources).obj), TRUE, "none", FALSE, FALSE)
              ELSE Out(target, FALSE, "none", FALSE, FALSE)

\* a variant that takes the last source of the list instead of the first
SelectLastSource(role, target, in) ==
    IF ~in.roomOk
    THEN Out(target, FALSE, "none", FALSE, TRUE)
    ELSE IF in.cargo.used > 0
         THEN IF role = "Builder"
              THEN SelectBuilder(target, in)
              ELSE SelectWorker(target, in)
         ELSE IF in.sources # <<>>
              THEN Out(Harvest(in.sources[Len(in.sources)].obj), TRUE, "none", FALSE, FALSE)
              ELSE Out(target, FALSE, "none", FALSE, FALSE)

\* the catch-all arm: no target, or a target whose guard failed
Select(role, target, in) ==
    IF ~in.roomOk
    THEN Out(target, FALSE, "none", FALSE, TRUE)
    ELSE IF in.cargo.used > 0
         THEN IF role = "Builder"
              THEN SelectBuilder(target, in)
              ELSE SelectWorker(target, in)
         ELSE IF in.sources # <<>>
              THEN Out(Harvest(Head(in.sources).obj), TRUE, "none", FALSE, FALSE)
              ELSE Out(target, FALSE, "none", FALSE, FALSE)

\* match target { ... }
MatchTarget(role, target, in) ==
    IF Precond(target, in.cargo)
    THEN CASE target.kind = "Upgrade" -> ExecUpgrade(target, in)
           [] target.kind = "Harvest" -> ExecHarvest(target, in)
           [] target.kind = "Build" -> ExecBuild(target, in)
           [] target.kind = "FillSpawn" -> ExecFillSpawn(target, in)
    ELSE Select(role, target, in)

\* a variant whose default record is a Builder
OrInsertBuilder(info, name) ==
    IF name \in DOMAIN info THEN info[name] ELSE Rec("Builder", None)

\* a variant that resets the record on every call
OrInsertFresh(info, name) == Rec("Worker", None)

\* creep_info.entry(name).or_insert_with(|| (CreepRole::Worker, None))
OrInsert(info, name) ==
    IF name \in DOMAIN info THEN info[name] ELSE Rec("Worker", None)

\* a variant that writes the target into every record of the registry
InsertAll(info, name, rec) ==
    [k \in DOMAIN info \cup {name} |->
        IF k = name THEN rec ELSE Rec(info[k].role, rec.target)]

\* HashMap::insert
Insert(info, name, rec) ==
    [k \in DOMAIN info \cup {name} |-> IF k = name THEN rec ELSE info[k]]

\* HashMap::new()
EmptyInfo == [k \in {} |-> Rec("Worker", None)]

\* the records of a registry under the names of a set
Only(info, names) == [k \in DOMAIN info \cap names |-> info[k]]

\* run_creep on a creep that is not spawning: the registry it leaves and
\* the commands it issues
RunOne(info, name, in) ==
    LET rec == OrInsert(info, name)
        out == MatchTarget(rec.role, rec.target, in)
    IN  [info |-> Insert(info, name, Rec(rec.role, out.target)), out |-> out]

\* the inputs run_creep reads when it runs on a record with this target
ExecInputs(target) ==
    LET cs == {c \in Cargos : Precond(target, c)}
    IN  {[NoInput EXCEPT !.cargo = c] : c \in cs}
        \cup
        IF target.kind = "Harvest"
        THEN {[NoInput EXCEPT !.cargo = c, !.resolves = TRUE, !.near = TRUE, !.result = r] :
                c \in cs, r \in Results}
             \cup {[NoInput EXCEPT !.cargo = c, !.resolves = TRUE, !.moveOk = m] :
                c \in cs, m \in BOOLEAN}
        ELSE {[NoInput EXCEPT !.cargo = c, !.resolves = TRUE, !.result = r] :
                c \in cs, r \in {"Ok", "Other"}}
             \cup {[NoInput EXCEPT !.cargo = c, !.resolves = TRUE, !.result = "NotInRange",
                                    !.moveOk = m] : c \in cs, m \in BOOLEAN}

SelectInputs(role, target, rich) ==
    LET cs == {c \in Cargos : ~Precond(target, c)}
        loaded == {c \in cs : c.used > 0}
        empty == {c \in cs : c.used = 0}
        controllers == ControllerIds \cup {NoController}
    IN  {[NoInput EXCEPT !.cargo = c] : c \in cs}
        \cup {[NoInput EXCEPT !.cargo = c, !.roomOk = TRUE, !.sources = s] :
                c \in empty, s \in SourceLists(rich)}
        \cup
        IF role = "Builder"
        THEN {[NoInput EXCEPT !.cargo = c, !.roomOk = TRUE, !.sites = s, !.controller = k] :
                c \in loaded, s \in SiteLists(rich), k \in controllers}
        ELSE {[NoInput EXCEPT !.cargo = c, !.roomOk = TRUE, !.spawns = s, !.controller = k] :
                c \in loaded, s \in SpawnLists(rich), k \in controllers}

Inputs(rec, rich) == ExecInputs(rec.target) \cup SelectInputs(rec.role, rec.target, rich)

\* ----------------------------------------------------------------- state
VARIABLES
    creep_info,   \* CREEP_INFO: name -> (role, target), for the names it holds
    time,         \* game::time()
    creeps,       \* game::creeps(): name -> "absent" | "spawning" | "alive"
    memory,       \* the names that have an entry in Memory.creeps
    pc,           \* where game_loop is: "creeps", "spawns", "cleanup"; "host"
                  \* between two ticks; "aborted" after a panic
    todo,         \* the creeps the first loop has still to visit in this tick
    spawnIdx,     \* the number of spawns the second loop has visited
    additional,   \* the local of that name in game_loop
    last,         \* the call of run_creep made by the last step, if any
    lastSpawn,    \* the latest successful spawn_creep
    prevSpawn,    \* the successful spawn_creep before it
    failed,       \* creeps whose latest call had an action fail, not for the range
    units,        \* the number of creeps that came to exist
    lastTry,      \* the iteration of the spawn loop made by the last step, if any
    newborn,      \* name -> who made the creep that run_creep has not yet got
                  \* past the spawning check for: "loop", "host", or "no"
    start         \* the records, as the loop over the creeps found them, of
                  \* the creeps it has still to visit

vars == <<creep_info, time, creeps, memory, pc, todo, spawnIdx, additional,
          last, lastSpawn, prevSpawn, failed, units, lastTry, newborn, start>>

NoCall ==
    [name |-> "-", ran |-> FALSE, known |-> FALSE, role |-> "Worker", before |-> None,
     in |-> NoInput, out |-> Out(None, FALSE, "none", FALSE, FALSE), refail |-> FALSE,
     newborn |-> "no"]
NoSpawn == [name |-> "-", time |-> 0, seq |-> 0]
NoTry ==
    [name |-> "-", seq |-> 0, energy |-> 0, answer |-> "-", called |-> FALSE,
     had |-> FALSE, old |-> Rec("Worker", None)]

Living == {n \in Names : creeps[n] # "absent"}

Init ==
    /\ creep_info = EmptyInfo
    /\ time = StartTime - 1
    /\ creeps = [n \in Names |-> "absent"]
    /\ memory = {}
    /\ pc = "host"
    /\ todo = {}
    /\ spawnIdx = 0
    /\ additional = 0
    /\ last = NoCall
    /\ lastSpawn = NoSpawn
    /\ prevSpawn = NoSpawn
    /\ failed = {}
    /\ units = 0
    /\ lastTry = NoTry
    /\ newborn = [n \in Names |-> "no"]
    /\ start = EmptyInfo

\* the step of game_loop after the loop over game::creeps() visited `rest`
AfterCreeps(rest) == IF rest = {} THEN "spawns" ELSE "creeps"

\* if creep.spawning() { return; }
SkipCreep(n) ==
    /\ pc = "creeps"
    /\ n \in todo
    /\ creeps[n] = "spawning"
    /\ todo' = todo \ {n}
    /\ pc' = AfterCreeps(todo')
    /\ last' = [NoCall EXCEPT !.name = n]
    /\ lastTry' = NoTry
    /\ start' = Only(start, todo')
    /\ UNCHANGED <<creep_info, time, creeps, memory, spawnIdx, additional,
                   lastSpawn, prevSpawn, failed, units, newborn>>

\* one iteration of the loop over game::creeps(): run_creep on a creep that
\* is not spawning, in a room of any shape (rich) or of the simplest shapes
RunCreep(n, rich) ==
    /\ pc = "creeps"
    /\ n \in todo
    /\ creeps[n] = "alive"
    /\ LET rec == OrInsert(creep_info, n)
       IN  \E in \in Inputs(rec, rich) :
             LET out == RunOne(creep_info, n, in).out
             IN  /\ creep_info' = RunOne(creep_info, n, in).info
                 /\ last' = [name |-> n, ran |-> TRUE, known |-> n \in DOMAIN creep_info,
                             role |-> rec.role, before |-> rec.target, in |-> in,
                             out |-> out, refail |-> n \in failed,
                             newborn |-> newborn[n]]
                 /\ failed' = IF out.action # "none" /\ in.result = "Other"
                              THEN failed \cup {n} ELSE failed \ {n}
                 /\ todo' = todo \ {n}
                 /\ pc' = IF out.panic THEN "aborted" ELSE AfterCreeps(todo')
                 /\ start' = IF out.panic THEN EmptyInfo ELSE Only(start, todo')
    /\ newborn' = [newborn EXCEPT ![n] = "no"]
    /\ lastTry' = NoTry
    /\ UNCHANGED <<time, creeps, memory, spawnIdx, additional, lastSpawn, prevSpawn, units>>

\* variants: one role for every spawn; the two roles swapped
RoleForBuilder(n) == "Builder"
RoleForSwapped(n) == IF n % 2 = 0 THEN "Worker" ELSE "Builder"

\* if additional % 2 == 0 { CreepRole::Builder } else { CreepRole::Worker }
RoleFor(n) == IF n % 2 = 0 THEN "Builder" ELSE "Worker"

\* the step of game_loop after the loop over game::spawns() visited i spawns
AfterSpawns(i) == IF i = NumSpawns THEN "cleanup" ELSE "spawns"

\* variants: the cost must be exceeded; the counter advances on every call
AffordableStrict(energy) == energy > BodyCost
AdvanceAlways(n, answer) == n + 1

\* if spawn.room().unwrap().energy_available() >= body...sum()
Affordable(energy) == energy >= BodyCost

\* additional += 1, in the Ok arm only
Advance(n, answer) == IF answer = "Ok" THEN n + 1 ELSE n

\* a variant that keeps the task of a record it overwrites
RegisterKeepTask(info, name, role) ==
    Insert(info, name, Rec(role, OrInsert(info, name).target))

\* creep_info.insert(name.clone(), (role, None))
Register(info, name, role) == Insert(info, name, Rec(role, None))

\* one iteration of the loop over game::spawns(), by the room's energy and
\* by what spawn_creep answers when it is called; the host answers Ok only
\* to a name no creep bears, and holds at most cap creeps over the run
RunSpawn(energy, answer, cap) ==
    /\ pc = "spawns"
    /\ answer = "Ok" => (creeps[Name(time, additional)] = "absent" /\ units < cap)
    /\ LET name == Name(time, additional)
           role == RoleFor(additional)
           called == Affordable(energy)
       IN  /\ lastTry' = [name |-> name, seq |-> additional, energy |-> energy,
                          answer |-> answer, called |-> called,
                          had |-> name \in DOMAIN creep_info,
                          old |-> OrInsert(creep_info, name)]
           /\ additional' = IF called THEN Advance(additional, answer) ELSE additional
           /\ IF called /\ answer = "Ok"
              THEN /\ units' = units + 1
                   /\ creep_info' = Register(creep_info, name, role)
                   /\ creeps' = [creeps EXCEPT ![name] = "spawning"]
                   /\ memory' = memory \cup {name}
                   /\ prevSpawn' = lastSpawn
                   /\ lastSpawn' = [name |-> name, time |-> time, seq |-> additional]
                   /\ failed' = failed \ {name}
                   /\ newborn' = [newborn EXCEPT ![name] = "loop"]
              ELSE UNCHANGED <<creep_info, creeps, memory, prevSpawn,
                               lastSpawn, failed, units, newborn>>
    /\ spawnIdx' = (spawnIdx + 1) % NumSpawns
    /\ pc' = AfterSpawns(spawnIdx + 1)
    /\ last' = NoCall
    /\ UNCHANGED <<time, todo, start>>

\* a variant that runs the cleanup in every tick
CleanupEveryTick ==
    /\ pc = "cleanup"
    /\ memory' = {m \in memory : m \in Living}
    /\ pc' = "host"
    /\ last' = NoCall
    /\ lastTry' = NoTry
    /\ UNCHANGED <<creep_info, time, creeps, todo, spawnIdx, additional,
                   lastSpawn, prevSpawn, failed, units, newborn, start>>

\* if game::time() % 1000 == 0 { ... }
Cleanup ==
    /\ pc = "cleanup"
    /\ memory' = IF time % CleanupInterval = 0
                 THEN {m \in memory : m \in Living}
                 ELSE memory
    /\ pc' = "host"
    /\ last' = NoCall
    /\ lastTry' = NoTry
    /\ UNCHANGED <<creep_info, time, creeps, todo, spawnIdx, additional,
                   lastSpawn, prevSpawn, failed, units, newborn, start>>

\* ------------------------------------------------------------------ host
\* a creep dies
HostKill(n) ==
    /\ pc = "host"
    /\ creeps[n] # "absent"
    /\ creeps' = [creeps EXCEPT ![n] = "absent"]
    /\ failed' = failed \ {n}
    /\ newborn' = [newborn EXCEPT ![n] = "no"]
    /\ last' = NoCall
    /\ lastTry' = NoTry
    /\ UNCHANGED <<creep_info, time, memory, pc, todo, spawnIdx, additional,
                   lastSpawn, prevSpawn, units, start>>

\* a creep leaves its spawn
HostSpawned(n) ==
    /\ pc = "host"
    /\ creeps[n] = "spawning"
    /\ creeps' = [creeps EXCEPT ![n] = "alive"]
    /\ last' = NoCall
    /\ lastTry' = NoTry
    /\ UNCHANGED <<creep_info, time, memory, pc, todo, spawnIdx, additional,
                   lastSpawn, prevSpawn, failed, units, newborn, start>>

\* a creep that game_loop did not spawn appears
HostCreate(n, cap) ==
    /\ pc = "host"
    /\ n \in ExtNames
    /\ creeps[n] = "absent"
    /\ units < cap
    /\ units' = units + 1
    /\ creeps' = [creeps EXCEPT ![n] = "spawning"]
    /\ memory' = memory \cup {n}
    /\ newborn' = [newborn EXCEPT ![n] = "host"]
    /\ last' = NoCall
    /\ lastTry' = NoTry
    /\ UNCHANGED <<creep_info, time, pc, todo, spawnIdx, additional,
                   lastSpawn, prevSpawn, failed, start>>

\* the host calls game_loop for the next tick, of at most `ticks`
Tick(ticks) ==
    /\ pc = "host"
    /\ time < StartTime + ticks - 1
    /\ time' = time + 1
    /\ todo' = Living
    /\ additional' = 0
    /\ spawnIdx' = 0
    /\ pc' = AfterCreeps(Living)
    /\ last' = NoCall
    /\ lastTry' = NoTry
    /\ start' = Only(creep_info, Living)
    /\ UNCHANGED <<creep_info, creeps, memory, lastSpawn, prevSpawn, failed, units, newborn>>

Next ==
    \/ \E n \in Names : SkipCreep(n)
    \/ \E n \in Names : RunCreep(n, TRUE)
    \/ \E energy \in Energies, answer \in {"Ok", "Err"} : RunSpawn(energy, answer, MaxUnits)
    \/ Cleanup
    \/ \E n \in Names : HostKill(n)
    \/ \E n \in Names : HostSpawned(n)
    \/ \E n \in Names : HostCreate(n, MaxUnits)
    \/ Tick(MaxTicks)

Spec == Init /\ [][Next]_vars

NextColony ==
    \/ \E n \in Names : SkipCreep(n)
    \/ \E n \in Names : RunCreep(n, FALSE)
    \/ \E energy \in Energies, answer \in {"Ok", "Err"} : RunSpawn(energy, answer, ColonyUnits)
    \/ Cleanup
    \/ \E n \in Names : HostKill(n)
    \/ \E n \in Names : HostSpawned(n)
    \/ \E n \in Names : HostCreate(n, ColonyUnits)
    \/ Tick(ColonyTicks)

SpecColony == Init /\ [][NextColony]_vars

\* ------------------------------------------------------------ properties
\* the last step was a call of run_creep that got past the spawning check
Ran == last.ran
\* ... and one of the four executing arms was taken
Executed == Ran /\ Precond(last.before, last.in.cargo)
\* ... and the catch-all arm was taken and found the room
Selecting == Ran /\ ~Precond(last.before, last.in.cargo) /\ ~last.out.panic
\* ... and the action was called on the resolved target and returned r
Returned(r) == Executed /\ last.in.resolves /\ last.out.action # "none" /\ last.in.result = r
\* the record of the creep the last call ran on
LastRec == creep_info[last.name]

\* a candidate for a creep of this role and cargo in the room it sees
Candidate(role, in) ==
    /\ in.roomOk
    /\ IF in.cargo.used > 0
       THEN \/ in.controller # NoController
            \/ role = "Builder" /\ in.sites # <<>>
            \/ role = "Worker" /\ \E i \in 1 .. Len(in.spawns) : in.spawns[i].free > 0
       ELSE in.sources # <<>>

\* C1: the role in the record of a creep never changes while the creep exists:
\* no step of a tick or of the host changes the role of a record whose creep
\* exists before and after the step.
C1_RoleNeverChanges ==
    [][\A n \in Names :
          (n \in DOMAIN creep_info /\ creeps[n] # "absent" /\ creeps'[n] # "absent")
          => (n \in DOMAIN creep_info' /\ creep_info'[n].role = creep_info[n].role)]_vars

\* run_creep changed the target of a record that holds the role Builder
C1_Witness ==
    /\ Ran /\ last.known /\ last.role = "Builder"
    /\ last.out.target # last.before
    /\ LastRec.role = "Builder"

\* the call found the target gone or got an error that is not kept
Clearing ==
    /\ Executed
    /\ \/ ~last.in.resolves
       \/ Returned("Other")
       \/ last.before.kind = "Harvest" /\ Returned("NotInRange")

\* C2 as claimed: when run_creep clears the task, a new one is selected in the
\* same call whenever the room holds a candidate, whatever the room is.
C2_ReselectedSameTick ==
    Clearing =>
        \A view \in SelectInputs(last.role, None, TRUE) :
            (view.cargo = last.in.cargo /\ Candidate(last.role, view))
            => LastRec.target # None

\* C2 as amended: when run_creep clears the task the creep ends the call with
\* no task, and a call records a task it did not start with only when the task
\* it started with was none or failed its guard.
C2_ClearedStaysNone ==
    /\ Clearing => LastRec.target = None
    /\ (Ran /\ LastRec.target \notin {last.before, None}) => Selecting

\* an Upgrade whose controller is gone was cleared
C2_Witness ==
    /\ Clearing /\ last.before.kind = "Upgrade" /\ ~last.in.resolves
    /\ LastRec.target = None

\* C3 as claimed: after a call that found the guard of the task failing, the
\* recorded task passes its guard with the same cargo.
C3_RecordedTaskPassesGuard ==
    (Selecting /\ last.before # None)
    => (LastRec.target # None /\ Precond(LastRec.target, last.in.cargo))

\* C3 as amended: after such a call the recorded task is the one before, kept
\* because nothing was selected, or a newly selected one; a newly selected task
\* passes its guard with the same cargo, except a Harvest selected for a creep
\* with neither energy nor free capacity.
C3_SelectedTaskPassesGuard ==
    (Selecting /\ last.before # None)
    => /\ ~last.out.say => LastRec.target = last.before
       /\ last.out.say =>
            \/ Precond(LastRec.target, last.in.cargo)
            \/ LastRec.target.kind = "Harvest" /\ last.in.cargo = [used |-> 0, free |-> 0]

\* a full creep that held Harvest got FillSpawn, which passes its guard
C3_Witness ==
    /\ Selecting /\ last.before.kind = "Harvest"
    /\ last.in.cargo = [used |-> 1, free |-> 0]
    /\ last.out.say /\ LastRec.target.kind = "FillSpawn"

\* C4 as claimed: two consecutive successful spawns get different roles.
C4_AlternateAcrossTicks ==
    (prevSpawn # NoSpawn /\ lastSpawn # NoSpawn)
    => creep_info[prevSpawn.name].role # creep_info[lastSpawn.name].role

\* C4 as amended: two consecutive successful spawns of the same tick get
\* different roles.
C4_AlternateWithinTick ==
    (prevSpawn # NoSpawn /\ lastSpawn # NoSpawn /\ prevSpawn.time = lastSpawn.time)
    => creep_info[prevSpawn.name].role # creep_info[lastSpawn.name].role

\* two spawns succeeded in one tick
C4_Witness ==
    /\ prevSpawn # NoSpawn /\ lastSpawn # NoSpawn
    /\ prevSpawn.time = lastSpawn.time
    /\ prevSpawn.name # lastSpawn.name

\* C5: the creep spawned with the in-tick sequence number n is registered as
\* Builder if n is even and as Worker if n is odd.
C5_RoleByParity ==
    \A sp \in {prevSpawn, lastSpawn} :
        sp # NoSpawn =>
            /\ sp.name \in DOMAIN creep_info
            /\ creep_info[sp.name].role = "Builder" <=> sp.seq % 2 = 0
            /\ creep_info[sp.name].role = "Worker" <=> sp.seq % 2 = 1

\* a spawn with an odd and one with an even sequence number succeeded
C5_Witness ==
    /\ prevSpawn # NoSpawn /\ prevSpawn.seq = 0
    /\ lastSpawn # NoSpawn /\ lastSpawn.seq = 1
    /\ creep_info[lastSpawn.name] = Rec("Worker", None)

\* C6 as claimed: for every task kind, when the action returns "not in range"
\* a move is issued and the task is kept.
C6_RangeErrorMoves ==
    Returned("NotInRange") => (last.out.move /\ LastRec.target = last.before)

\* C6 as amended: that holds for Upgrade, Build and FillSpawn; for Harvest the
\* move is issued, and the task kept, when the creep is not near the source,
\* without calling harvest, and a "not in range" that harvest returns clears
\* the task without a move.
C6_RangeErrorMovesButHarvest ==
    /\ (Returned("NotInRange") /\ last.before.kind # "Harvest")
       => (last.out.move /\ LastRec.target = last.before)
    /\ (Executed /\ last.before.kind = "Harvest" /\ last.in.resolves /\ ~last.in.near)
       => (last.out.move /\ last.out.action = "none" /\ LastRec.target = last.before)
    /\ (Returned("NotInRange") /\ last.before.kind = "Harvest")
       => (~last.out.move /\ LastRec.target = None)

\* build returned "not in range" and the move that followed failed
C6_Witness ==
    /\ Returned("NotInRange") /\ last.before.kind = "Build" /\ ~last.in.moveOk
    /\ last.out.move /\ LastRec.target = last.before

\* C7: when the guard of the task holds and its target does not resolve, the
\* call does not panic, leaves the creep without a task, issues neither an
\* action nor a move, and keeps the role.
C7_StaleTargetCleared ==
    (Executed /\ ~last.in.resolves)
    => /\ ~last.out.panic
       /\ pc # "aborted"
       /\ LastRec.target = None
       /\ last.out.action = "none"
       /\ ~last.out.move
       /\ LastRec.role = last.role

\* a FillSpawn whose spawn is gone was cleared
C7_Witness ==
    /\ Executed /\ ~last.in.resolves /\ last.before.kind = "FillSpawn"
    /\ LastRec = Rec("Worker", None)

\* C8 as claimed: an action error that is not the range error leaves no task
\* and issues no move, and the next call for the creep leaves it with a task
\* whenever its room holds a candidate.
C8_ReselectedNextTick ==
    /\ Returned("Other") => (LastRec.target = None /\ ~last.out.move)
    /\ (Ran /\ last.refail)
       => /\ last.before = None
          /\ Candidate(last.role, last.in) => LastRec.target # None

\* what C9 claims the selection gives a Worker that carries energy
C9_Expected(before, in) ==
    LET free == {i \in 1 .. Len(in.spawns) : in.spawns[i].free > 0}
    IN  IF free # {}
        THEN FillSpawn(in.spawns[CHOOSE i \in free : \A j \in free : i <= j].obj)
        ELSE IF in.controller # NoController
             THEN Upgrade(in.controller)
             ELSE before

\* C9 as claimed: a Worker that carries energy gets FillSpawn on the first
\* spawn with free capacity, else Upgrade on the controller, else nothing.
C9_WorkerSelection ==
    (Selecting /\ last.role = "Worker" /\ last.in.cargo.used > 0)
    => LastRec.target = C9_Expected(last.before, last.in)

\* C10 as claimed: a Builder that carries energy gets Build on the first site,
\* else Upgrade on the controller, else nothing; with a controller in the room
\* it always gets a new task.
C10_BuilderSelection ==
    (Selecting /\ last.role = "Builder" /\ last.in.cargo.used > 0)
    => /\ LastRec.target =
            IF last.in.sites # <<>> THEN Build(Head(last.in.sites).obj)
            ELSE IF last.in.controller # NoController THEN Upgrade(last.in.controller)
            ELSE last.before
       /\ last.in.controller # NoController => last.out.say

\* C10 as amended: a Builder that carries energy gets Build on the first site
\* when that site has an id, and nothing when it has none; without a site it
\* gets Upgrade on the controller, else nothing.
C10_BuilderSelectionById ==
    (Selecting /\ last.role = "Builder" /\ last.in.cargo.used > 0)
    => /\ LastRec.target =
            IF last.in.sites # <<>>
            THEN IF Head(last.in.sites).id # NoId
                 THEN Build(Head(last.in.sites).obj)
                 ELSE last.before
            ELSE IF last.in.controller # NoController THEN Upgrade(last.in.controller)
            ELSE last.before
       /\ last.out.say <=>
            IF last.in.sites # <<>> THEN Head(last.in.sites).id # NoId
            ELSE last.in.controller # NoController

\* a Builder with energy and two sites in its room took the first
C10_Witness ==
    /\ Selecting /\ last.role = "Builder" /\ last.in.cargo.used > 0
    /\ Len(last.in.sites) = 2
    /\ LastRec.target = Build(last.in.sites[1].obj)

\* C11: when the selection runs for a creep of either role that carries no
\* energy, it records Harvest on the first source of the room, whatever the
\* creep held before, and with no source it records nothing new.
C11_EmptySelectsFirstSource ==
    (Selecting /\ last.in.cargo.used = 0)
    => IF last.in.sources # <<>>
       THEN LastRec.target = Harvest(Head(last.in.sources).obj) /\ last.out.say
       ELSE LastRec.target = last.before /\ ~last.out.say

\* an empty creep that held Upgrade took the first of two sources
C11_Witness ==
    /\ Selecting /\ last.in.cargo.used = 0 /\ last.before.kind = "Upgrade"
    /\ Len(last.in.sources) = 2
    /\ LastRec.target = Harvest(last.in.sources[1].obj)

\* C12: a step of a tick deletes an entry of Memory.creeps exactly when it is
\* the cleanup of a tick whose time is a multiple of 1000 and no creep of
\* game::creeps() bears the entry's name; the cleanup leaves the registry as
\* it is.
C12_ReaperDeletesDead ==
    [][pc # "host" =>
          /\ \A m \in Names :
                (m \in memory /\ m \notin memory')
                <=> /\ pc = "cleanup"
                    /\ time % CleanupInterval = 0
                    /\ m \in memory
                    /\ creeps[m] = "absent"
          /\ pc = "cleanup" => creep_info' = creep_info]_vars

\* the cleanup of tick 1000 deleted the entry of a dead creep that the
\* registry still knows and kept the entry of a living one
C12_Witness ==
    /\ pc = "host" /\ time % CleanupInterval = 0
    /\ \E d \in DOMAIN creep_info : creeps[d] = "absent" /\ d \notin memory
    /\ \E a \in Names : creeps[a] # "absent" /\ a \in memory

\* the counter `additional` that a name of the spawn loop was made from
SeqOf ==
    [n \in SpawnNames |->
        CHOOSE k \in 0 .. (NumSpawns - 1) : \E t \in Times : n = Name(t, k)]

\* the last step was an iteration of the spawn loop in which the room held at
\* least the cost of the body and the host accepted the name
SpawnAccepted == lastTry.energy >= BodyCost /\ lastTry.answer = "Ok"

\* C13: when the room's energy is at least the cost of the body, the exact
\* cost included, and spawn_creep succeeds, the registry holds under the name
\* "<time>-<additional>" the record (role by parity, no task), whatever it
\* held under that name before; and while a creep that game_loop spawned is
\* still spawning, its record stays that one.
C13_SpawnRegisters ==
    /\ SpawnAccepted
       => /\ lastTry.called
          /\ lastTry.name = Name(time, lastTry.seq)
          /\ lastTry.name \in DOMAIN creep_info
          /\ creep_info[lastTry.name] = Rec(RoleFor(lastTry.seq), None)
    /\ \A n \in SpawnNames :
          (newborn[n] = "loop" /\ creeps[n] = "spawning")
          => /\ n \in DOMAIN creep_info
             /\ creep_info[n] = Rec(RoleFor(SeqOf[n]), None)

\* a spawn with exactly the cost of the body succeeded and replaced the
\* record, with a task, that a dead creep of that name had left
C13_Witness ==
    /\ SpawnAccepted /\ lastTry.energy = BodyCost
    /\ lastTry.had /\ lastTry.old.role = "Worker" /\ lastTry.old.target # None
    /\ creep_info[lastTry.name] = Rec("Builder", None)

\* C14: an iteration of the spawn loop whose spawn_creep fails leaves the
\* registry and the counter `additional` as they are; one whose spawn_creep
\* succeeds advances the counter by one, and registers a name under which no
\* earlier spawn succeeded, in this tick or in another.
C14_FailedSpawnKeepsCounter ==
    [][(pc = "spawns" /\ lastTry'.called)
       => IF lastTry'.answer = "Ok"
          THEN /\ additional' = additional + 1
               /\ lastSpawn'.name = lastTry'.name
               /\ lastTry'.name \notin {lastSpawn.name, prevSpawn.name}
          ELSE /\ creep_info' = creep_info
               /\ additional' = additional]_vars

\* after a spawn that succeeded in this tick, spawn_creep failed for the
\* next spawn: the counter stays at one and the registry holds the one record
C14_Witness ==
    /\ lastTry.called /\ lastTry.answer = "Err"
    /\ lastSpawn # NoSpawn /\ lastSpawn.time = time
    /\ additional = 1 /\ lastTry.seq = 1
    /\ ~lastTry.had /\ lastTry.name \notin DOMAIN creep_info

\* C15: when a tick ends, every creep that is alive and not spawning has a
\* record in the registry; a call of run_creep that gets past the spawning
\* check works on the record the registry holds for the creep, unchanged, and
\* on (Worker, no task) when it holds none, and leaves a record of that role.
C15_EveryLiveCreepHasRecord ==
    [][/\ pc = "cleanup"
          => \A n \in Names : creeps'[n] = "alive" => n \in DOMAIN creep_info'
       /\ (pc = "creeps" /\ last'.ran)
          => LET n == last'.name
             IN  /\ n \in DOMAIN creep_info'
                 /\ creep_info'[n].role = last'.role
                 /\ IF n \in DOMAIN creep_info
                    THEN last'.role = creep_info[n].role /\ last'.before = creep_info[n].target
                    ELSE last'.role = "Worker" /\ last'.before = None]_vars

\* the loop over the creeps ended with a creep it saw for the first time,
\* after another that the registry knew: both have their record
C15_Witness ==
    /\ pc = "spawns" /\ Ran /\ ~last.known
    /\ LastRec.role = "Worker" /\ last.before = None
    /\ \E m \in Names \ {last.name} : creeps[m] = "alive" /\ creep_info[m].role = "Builder"

\* C16 as claimed: the first call of run_creep that gets past the spawning
\* check for a new creep finds no task in its record, also when a dead creep
\* bore the same name.
C16_NoStaleTask ==
    (Ran /\ last.newborn # "no") => last.before = None

\* C17: the loop over the creeps gives the same registry and the same commands
\* for every creep in whatever order it visits them: a call of run_creep
\* leaves for its creep the record, and issues the commands, that it would on
\* the registry as the loop found it, and changes no record of another creep.
C17_OrderIndependent ==
    [][(pc = "creeps" /\ last'.ran)
       => LET n == last'.name
              alone == RunOne(start, n, last'.in)
          IN  /\ last'.out = alone.out
              /\ creep_info'[n] = alone.info[n]
              /\ DOMAIN creep_info' = DOMAIN creep_info \cup {n}
              /\ \A m \in DOMAIN creep_info \ {n} : creep_info'[m] = creep_info[m]]_vars

\* the loop ran on two creeps, the second of them new to the registry, and
\* left a task with each
C17_Witness ==
    /\ pc = "spawns" /\ Ran /\ ~last.known /\ LastRec.target # None
    /\ \E m \in Names \ {last.name} :
          /\ creeps[m] = "alive" /\ m \notin todo
          /\ creep_info[m].target \notin {None, LastRec.target}

\* C18 as claimed: when the room of a creep that run_creep processes does not
\* resolve, game_loop aborts at that creep, whatever task the creep holds.  A
\* call that executes a task never asks for the room, so what it does is what
\* the code does when the room does not resolve.
C18_UnresolvedRoomAborts ==
    (Ran /\ (Executed \/ ~last.in.roomOk)) => pc = "aborted"

\* C18 as amended: when a creep has no task, or a task whose guard fails, and
\* its room does not resolve, game_loop aborts at that creep: the record keeps
\* its task, and no creep is processed, no spawn run and no cleanup made after
\* it; a call that executes a task does not abort.
C18_UnresolvedRoomAbortsSelection ==
    [][/\ pc # "aborted"
       /\ (last'.ran /\ ~Precond(last'.before, last'.in.cargo) /\ ~last'.in.roomOk)
          => /\ pc' = "aborted"
             /\ last'.out.panic
             /\ creep_info'[last'.name].target = last'.before
             /\ todo' = todo \ {last'.name}
       /\ (last'.ran /\ Precond(last'.before, last'.in.cargo))
          => (pc' # "aborted" /\ ~last'.out.panic)]_vars

\* game_loop aborted at a creep whose Harvest failed its guard, with another
\* creep still to visit and before any spawn
C18_Witness ==
    /\ pc = "aborted" /\ Ran /\ last.before.kind = "Harvest" /\ ~last.in.roomOk
    /\ LastRec.target = last.before
    /\ todo # {} /\ spawnIdx = 0 /\ lastTry = NoTry

\* C19: a call of run_creep either executes the task or selects one.  When
\* the guard of the task holds, the record holds afterwards the same task or
\* none, and the call issues the one action of that task at most; when the
\* call selects a task, it issues no action and no move.
C19_ExecuteOrSelect ==
    /\ Executed
       => /\ LastRec.target \in {last.before, None}
          /\ ~last.out.panic
          /\ last.out.action \in
                {"none",
                 CASE last.before.kind = "Upgrade" -> "upgrade_controller"
                   [] last.before.kind = "Harvest" -> "harvest"
                   [] last.before.kind = "Build" -> "build"
                   [] last.before.kind = "FillSpawn" -> "transfer"}
    /\ (Ran /\ ~Executed)
       => /\ last.out.action = "none" /\ ~last.out.move
          /\ last.out.say => (Selecting /\ LastRec.target # None)
          /\ ~last.out.say => LastRec.target = last.before

\* a FillSpawn whose transfer failed was cleared, and nothing was selected
C19_Witness ==
    /\ Returned("Other") /\ last.before.kind = "FillSpawn"
    /\ last.out.action = "transfer" /\ ~last.out.move
    /\ LastRec.target = None

\* C20: in every record of the registry the task fits the role: no Builder
\* holds FillSpawn and no Worker holds Build, also in a record that the spawn
\* loop wrote over another and in one that run_creep made by default.
C20_TaskFitsRole ==
    \A n \in DOMAIN creep_info :
        /\ creep_info[n].role = "Builder" => creep_info[n].target.kind # "FillSpawn"
        /\ creep_info[n].role = "Worker" => creep_info[n].target.kind # "Build"

\* the spawn loop wrote a Builder over the record of a dead Worker that held
\* FillSpawn
C20_Witness ==
    /\ SpawnAccepted /\ lastTry.had
    /\ lastTry.old.role = "Worker" /\ lastTry.old.target.kind = "FillSpawn"
    /\ creep_info[lastTry.name].role = "Builder"
    /\ creep_info[lastTry.name].target.kind # "FillSpawn"

====
